---------------------------- MODULE Spec2Model ----------------------------
(***************************************************************************)
(* Model of the chunked extraction engine of src/src/dataset.py            *)
(* (class DataExtractor): the document splitter, the rate limiter, the     *)
(* herb merge rule, the deduplication pass and the checkpointed            *)
(* orchestrator process_pdf_file.                                          *)
(*                                                                         *)
(* Each component has its own specification over the shared variables:     *)
(*   SpecSplit  _split_pdf_file, one action per loop iteration             *)
(*   SpecRate   wait_for_rate_limit, one action per call                   *)
(*   SpecMerge  _merge_duplicate_herbs applied to a pair of herbs          *)
(*   SpecDedup  _deduplicate_results applied once and then again           *)
(*   Spec       process_pdf_file, runs and resumed runs                    *)
(*   SpecValidate  validate_json_structure of utils.py, one call           *)
(*   SpecRep    is_repetitive, one call                                    *)
(*   SpecRetry  the retry loops of _extract_with_model and of              *)
(*              _call_gemini_with_retry, one action per attempt            *)
(*   SpecChunk  _chunk_pdf_pages, one action per page window               *)
(* A specification leaves the variables of the other components at their   *)
(* idle values.                                                            *)
(*                                                                         *)
(* Strings are tuples of one-character strings, so that strip(), lower(),  *)
(* len() and difflib.SequenceMatcher are computed character by character.  *)
(***************************************************************************)
EXTENDS Integers, Sequences, FiniteSets, TLC

VARIABLES
    \* ---- _split_pdf_file
    total_pages,        \* len(reader.pages)
    pages_per_chunk,    \* parameter
    overlap_pages,      \* parameter
    start_idx,          \* local, 0-based
    chunk_num,          \* local
    output_files,       \* the files written so far, in order
    split_pc,           \* "idle" | "while" | "returned" | "raised"
    \* ---- wait_for_rate_limit
    rpm,                \* settings.REQUESTS_PER_MINUTE
    now,                \* the wall clock, in seconds
    request_times,      \* deque(maxlen=rpm) of timestamps
    last_request_time,  \* None or a timestamp
    recorded,           \* history: every timestamp appended to request_times
    calls,              \* history: number of completed acquisitions
    \* ---- _merge_duplicate_herbs
    herb1,              \* the existing herb
    herb2,              \* the incoming herb
    merged,             \* the returned herb
    merge_pc,           \* "idle" | "call" | "returned"
    \* ---- _deduplicate_results
    use_fuzzy,          \* settings.USE_FUZZY_MATCHING
    data,               \* the accumulated result handed to the pass
    pass1,              \* _deduplicate_results(data)
    pass2,              \* _deduplicate_results(pass1)
    dedup_pc,           \* "idle" | "build" | "once" | "twice"
    \* ---- process_pdf_file
    service,            \* the remote service: what each SubDocument yields
    checkpoint,         \* the checkpoint file
    run,                \* the state of the current run of process_pdf_file
    \* ---- validate_json_structure
    json_data,          \* the parsed JSON value handed to the validator
    validated,          \* the returned object
    validate_pc,        \* "idle" | "call" | "returned"
    \* ---- is_repetitive
    rep_text,           \* the text handed to is_repetitive
    repetitive,         \* the returned boolean
    rep_pc,             \* "idle" | "call" | "returned"
    \* ---- the retry loops of the two extractors
    extractor,          \* "_extract_with_model" | "_call_gemini_with_retry"
    settings,           \* the backoff and retry settings
    attempt,            \* the loop index (retry, attempt)
    attempt_log,        \* history: what each attempt met and what it slept
    generate_calls,     \* history: number of generate_content calls
    call_trace,         \* history: the rate limiter and remote calls, in order
    retry_result,       \* what the call returned: None, "text" or "result"
    retry_pc,           \* "idle" | "loop" | "returned"
    \* ---- _chunk_pdf_pages
    chunk_settings,     \* total_pages, the two parameters and the OCR settings
    start_page,         \* local, 1-based
    chunk_position,     \* local
    consecutive_failures, \* local
    chunks,             \* local: the TextSlices accepted so far
    window_log,         \* history: what was done for each page window
    chunk_pc            \* "idle" | "while" | "returned"

splitVars == <<total_pages, pages_per_chunk, overlap_pages, start_idx,
               chunk_num, output_files, split_pc>>
rateVars  == <<rpm, now, request_times, last_request_time, recorded, calls>>
mergeVars == <<herb1, herb2, merged, merge_pc>>
dedupVars == <<use_fuzzy, data, pass1, pass2, dedup_pc>>
runVars   == <<service, checkpoint, run>>
validateVars == <<json_data, validated, validate_pc>>
repVars   == <<rep_text, repetitive, rep_pc>>
retryVars == <<extractor, settings, attempt, attempt_log, generate_calls,
               call_trace, retry_result, retry_pc>>
chunkVars == <<chunk_settings, start_page, chunk_position, consecutive_failures,
               chunks, window_log, chunk_pc>>
otherVars == <<validateVars, repVars, retryVars, chunkVars>>
vars      == <<splitVars, rateVars, mergeVars, dedupVars, runVars, otherVars>>

Min(a, b) == IF a < b THEN a ELSE b
Max(a, b) == IF a > b THEN a ELSE b
Last(s)   == s[Len(s)]

\* None of Python.
None == "None"
\* None in the place of a timestamp (timestamps are >= 0).
NoTime == -1

(***************************************************************************)
(* Bounds of the model.                                                    *)
(***************************************************************************)
MaxPages == 12      \* total_pages ranges over 0..MaxPages
MaxChunk == 6       \* pages_per_chunk over 1..MaxChunk, overlap_pages over 0..MaxChunk
MaxRpm   == 3       \* REQUESTS_PER_MINUTE ranges over 1..MaxRpm
MaxCalls == 4       \* calls of wait_for_rate_limit in one behaviour
MaxRecords == 3     \* records (herbs, prescriptions, formula lines) in an accumulated result
MaxSlices == 2      \* TextSlices _chunk_pdf_pages returns for one SubDocument
MaxRuns  == 2       \* runs of process_pdf_file in one behaviour
MaxParsedHerbs == 2 \* herbs in the vi_thuoc of a parsed JSON object
MaxGroupWords == 11 \* words in one of the three word groups of a text
MaxWindowPages == 5 \* pages of the SubDocument handed to _chunk_pdf_pages

(***************************************************************************)
(* Idle values of the components a specification does not run.             *)
(***************************************************************************)
IdleSplit ==
    /\ total_pages = 0 /\ pages_per_chunk = 1 /\ overlap_pages = 0
    /\ start_idx = 0 /\ chunk_num = 0 /\ output_files = <<>>
    /\ split_pc = "idle"

IdleRate ==
    /\ rpm = 1 /\ now = 0 /\ request_times = <<>>
    /\ last_request_time = NoTime /\ recorded = <<>> /\ calls = 0

IdleMerge ==
    /\ herb1 = None /\ herb2 = None /\ merged = None /\ merge_pc = "idle"

IdleDedup ==
    /\ use_fuzzy = TRUE
    /\ data = None /\ pass1 = None /\ pass2 = None /\ dedup_pc = "idle"

IdleRun ==
    /\ service = None /\ checkpoint = None /\ run = None

IdleValidate ==
    /\ json_data = None /\ validated = None /\ validate_pc = "idle"

IdleRep ==
    /\ rep_text = <<>> /\ repetitive = FALSE /\ rep_pc = "idle"

IdleRetry ==
    /\ extractor = None /\ settings = None /\ attempt = 0 /\ attempt_log = <<>>
    /\ generate_calls = 0 /\ call_trace = <<>>
    /\ retry_result = None /\ retry_pc = "idle"

IdleChunk ==
    /\ chunk_settings = None /\ start_page = 1 /\ chunk_position = 0
    /\ consecutive_failures = 0 /\ chunks = <<>> /\ window_log = <<>>
    /\ chunk_pc = "idle"

IdleOther == IdleValidate /\ IdleRep /\ IdleRetry /\ IdleChunk

(***************************************************************************)
(* _split_pdf_file (dataset.py 131-177).                                   *)
(* A written file is recorded by what its name encodes:                    *)
(* chunk_{chunk_num}_pages_{start_idx+1}-{end_idx}.pdf                     *)
(***************************************************************************)

\* Mutants of Step: the overlap added instead of subtracted; the overlap forgotten.
StepSignSlip(ppc, ov) == ppc + ov
StepNoOverlap(ppc, ov) == ppc

\* line 142: step = pages_per_chunk - overlap_pages
Step(ppc, ov) == ppc - ov

\* line 148: end_idx = min(start_idx + pages_per_chunk, total_pages)
EndIdx(start, ppc, total) == Min(start + ppc, total)

\* line 155: the output file name
OutputFile(num, start, end) == [chunk |-> num, first |-> start + 1, last |-> end]

\* line 169: the remainder is too small to be a chunk of its own
TailTooSmall(start, total, ov) == start < total /\ (total - start) < ov

\* lines 146-171: one iteration of the while loop.  reader.pages[page_num]
\* with a negative page_num (start_idx < 0, possible only when step < 0) is
\* pypdf's business: it either wraps around or raises IndexError.
SplitIter ==
    /\ split_pc = "while"
    /\ start_idx < total_pages
    /\ Len(output_files) <= MaxPages
    /\ \E raises \in (IF start_idx < 0 THEN BOOLEAN ELSE {FALSE}) :
        IF raises
        THEN /\ split_pc' = "raised"
             /\ UNCHANGED <<start_idx, chunk_num, output_files>>
        ELSE LET end_idx == EndIdx(start_idx, pages_per_chunk, total_pages)
                 next    == start_idx + Step(pages_per_chunk, overlap_pages)
             IN  /\ output_files' = Append(output_files,
                                      OutputFile(chunk_num, start_idx, end_idx))
                 /\ chunk_num' = chunk_num + 1
                 /\ start_idx' = next
                 /\ split_pc' = IF TailTooSmall(next, total_pages, overlap_pages)
                                THEN "returned"      \* break, then line 177
                                ELSE "while"
    /\ UNCHANGED <<total_pages, pages_per_chunk, overlap_pages>>

\* line 146 false, then lines 173-177: return output_files
SplitReturn ==
    /\ split_pc = "while"
    /\ ~(start_idx < total_pages)
    /\ split_pc' = "returned"
    /\ UNCHANGED <<total_pages, pages_per_chunk, overlap_pages, start_idx,
                   chunk_num, output_files>>

\* lines 134-145: the state on entry of the loop
SplitEntry(total, ppc, ov) ==
    /\ total_pages = total /\ pages_per_chunk = ppc /\ overlap_pages = ov
    /\ start_idx = 0 /\ chunk_num = 0 /\ output_files = <<>>
    /\ split_pc = "while"

InitSplit ==
    /\ \E total \in 0..MaxPages, ppc \in 1..MaxChunk, ov \in 0..MaxChunk :
          SplitEntry(total, ppc, ov)
    /\ IdleRate /\ IdleMerge /\ IdleDedup /\ IdleRun /\ IdleOther

NextSplit ==
    \/ SplitIter /\ UNCHANGED <<rateVars, mergeVars, dedupVars, runVars, otherVars>>
    \/ SplitReturn /\ UNCHANGED <<rateVars, mergeVars, dedupVars, runVars, otherVars>>

SpecSplit == InitSplit /\ [][NextSplit]_vars

\* The pages of an emitted file, and the configurations the splitter is for.
Pages(f) == f.first .. f.last
ValidSplitConfig == overlap_pages < pages_per_chunk

(***************************************************************************)
(* wait_for_rate_limit (dataset.py 195-215) and the deque of line 128.     *)
(* Time is in whole seconds.  REQUESTS_PER_MINUTE ranges over values that  *)
(* divide 60, so that 60.0 / REQUESTS_PER_MINUTE is a whole number.        *)
(***************************************************************************)

\* timedelta(minutes=1) of line 197 and the 60 of line 203, in seconds
WINDOW == 60

\* How long after the previous call's return a caller may arrive.
Delays == {0, 1, 20, 30, 59, 60}
\* time.sleep may return late, and the clock moves between two datetime.now().
Lateness == {0, 1}

\* Mutant of MinDelay: the operands of the division swapped.
MinDelaySwapped(n) == n \div WINDOW

\* line 208: min_delay = 60.0 / REQUESTS_PER_MINUTE
MinDelay(n) == WINDOW \div n

\* lines 199-200: popleft while request_times[0] < one_minute_ago
RECURSIVE DropOld(_, _)
DropOld(q, one_minute_ago) ==
    IF q # <<>> /\ Head(q) < one_minute_ago
    THEN DropOld(Tail(q), one_minute_ago)
    ELSE q

\* deque(maxlen=n).append(x): a full deque drops its leftmost element
AppendMaxlen(q, x, n) ==
    IF Len(q) >= n THEN Append(Tail(q), x) ELSE Append(q, x)

\* lines 202-206: the time at which the window-full branch is left
AfterWindowSleep(q, current_time, n, late) ==
    IF Len(q) >= n
    THEN LET wait_time == WINDOW - (current_time - Head(q))
         IN  IF wait_time > 0
             THEN current_time + wait_time + 1 + late    \* time.sleep(wait_time + 1)
             ELSE current_time
    ELSE current_time

\* lines 209-212: the time at which the floor-delay branch is left; elapsed
\* is measured from current_time, the time of entry
AfterFloorSleep(t, current_time, last, min_delay, late) ==
    IF last # NoTime /\ (current_time - last) < min_delay
    THEN t + (min_delay - (current_time - last)) + late
    ELSE t

\* Mutant of RecordedTime: the time of entry recorded, not the time of return.
RecordedTimeOfEntry(current_time, wake) == current_time

\* line 214: the timestamp appended is datetime.now() after the sleeps
RecordedTime(current_time, wake) == wake

\* lines 195-215: one call, by a caller that arrives d seconds after the
\* previous call returned
WaitForRateLimit ==
    /\ calls < MaxCalls
    /\ \E d \in Delays, late \in Lateness, lag \in Lateness :
        LET current_time == now + d
            kept == DropOld(request_times, current_time - WINDOW)
            t1   == AfterWindowSleep(kept, current_time, rpm, late)
            t2   == AfterFloorSleep(t1, current_time, last_request_time,
                                    MinDelay(rpm), late)
            stamp == RecordedTime(current_time, t2)
        IN  /\ request_times' = AppendMaxlen(kept, stamp, rpm)
            /\ last_request_time' = t2 + lag            \* line 215
            /\ now' = t2 + lag
            /\ recorded' = Append(recorded, stamp)
            /\ calls' = calls + 1
    /\ UNCHANGED rpm

InitRate ==
    /\ rpm \in 1..MaxRpm
    /\ now = 0 /\ request_times = <<>> /\ last_request_time = NoTime
    /\ recorded = <<>> /\ calls = 0
    /\ IdleSplit /\ IdleMerge /\ IdleDedup /\ IdleRun /\ IdleOther

NextRate ==
    WaitForRateLimit /\ UNCHANGED <<splitVars, mergeVars, dedupVars, runVars, otherVars>>

SpecRate == InitRate /\ [][NextRate]_vars

(***************************************************************************)
(* Strings: tuples of one-character strings.                               *)
(***************************************************************************)

\* str.lower(), on the letters the model uses
LowerChar(c) ==
    CASE c = "A" -> "a" [] c = "B" -> "b" [] c = "C" -> "c" [] OTHER -> c

Lower(s) == [i \in 1..Len(s) |-> LowerChar(s[i])]

\* str.strip(): leading and trailing blanks removed
RECURSIVE LStrip(_)
LStrip(s) == IF s # <<>> /\ Head(s) = " " THEN LStrip(Tail(s)) ELSE s

RECURSIVE RStrip(_)
RStrip(s) ==
    IF s # <<>> /\ s[Len(s)] = " " THEN RStrip(SubSeq(s, 1, Len(s) - 1)) ELSE s

Strip(s) == RStrip(LStrip(s))

\* The strings of the model.
S_abc    == <<"a", "b", "c">>
S_abcd   == <<"a", "b", "c", "d">>
S_ABC    == <<"A", "B", "C">>
S_abc_sp == <<"a", "b", "c", " ">>
S_xy     == <<"x", "y">>
S_p      == <<"p">>
S_qq     == <<"q", "q">>
S_ab     == <<"a", "b">>
S_cd     == <<"c", "d">>
S_abcdef == <<"a", "b", "c", "d", "e", "f">>
S_5g     == <<"5", "g">>
S_9g     == <<"9", "g">>

\* "Không có thông tin" (lines 56, 112, 561, 564), without its diacritics
NO_INFO == <<"K", "h", "o", "n", "g", " ", "c", "o", " ",
             "t", "h", "o", "n", "g", " ", "t", "i", "n">>

(***************************************************************************)
(* _calculate_similarity (dataset.py 553-554):                             *)
(* difflib.SequenceMatcher(None, a.lower(), b.lower()).ratio() = 2*M/T,    *)
(* M the number of matched characters (Ratcliff/Obershelp: the longest     *)
(* common block, the earliest one in a and then in b, then the same to its *)
(* left and to its right), T the sum of the two lengths; 1.0 when T = 0.   *)
(* The strings of the model are shorter than the 200 characters at which   *)
(* SequenceMatcher's autojunk heuristic starts.                            *)
(***************************************************************************)

RECURSIVE CommonLen(_, _, _, _, _, _)
CommonLen(a, i, ahi, b, j, bhi) ==
    IF i <= ahi /\ j <= bhi /\ a[i] = b[j]
    THEN 1 + CommonLen(a, i + 1, ahi, b, j + 1, bhi)
    ELSE 0

\* SequenceMatcher.find_longest_match on a[alo..ahi], b[blo..bhi]
FindLongestMatch(a, alo, ahi, b, blo, bhi) ==
    LET cand == (alo..ahi) \X (blo..bhi)
        size(p) == CommonLen(a, p[1], ahi, b, p[2], bhi)
        best == CHOOSE p \in cand : \A q \in cand :
                    \/ size(p) > size(q)
                    \/ /\ size(p) = size(q)
                       /\ \/ p[1] < q[1]
                          \/ (p[1] = q[1] /\ p[2] <= q[2])
    IN  [i |-> best[1], j |-> best[2], k |-> size(best)]

\* SequenceMatcher.get_matching_blocks: the matched characters
RECURSIVE MatchCount(_, _, _, _, _, _)
MatchCount(a, alo, ahi, b, blo, bhi) ==
    IF alo > ahi \/ blo > bhi
    THEN 0
    ELSE LET m == FindLongestMatch(a, alo, ahi, b, blo, bhi)
         IN  IF m.k = 0
             THEN 0
             ELSE m.k + MatchCount(a, alo, m.i - 1, b, blo, m.j - 1)
                      + MatchCount(a, m.i + m.k, ahi, b, m.j + m.k, bhi)

\* The ratio as a fraction num/den.
CalculateSimilarity(text1, text2) ==
    LET a == Lower(text1)
        b == Lower(text2)
    IN  IF Len(a) + Len(b) = 0
        THEN [num |-> 1, den |-> 1]
        ELSE [num |-> 2 * MatchCount(a, 1, Len(a), b, 1, Len(b)),
              den |-> Len(a) + Len(b)]

\* settings.SIMILARITY_THRESHOLD = 0.85, in hundredths
SIMILARITY_THRESHOLD == 85

\* ratio >= pct / 100
AtLeast(ratio, pct) == ratio.num * 100 >= pct * ratio.den

(***************************************************************************)
(* _merge_duplicate_herbs (dataset.py 556-570).  A herb is a record of     *)
(* strings; all herbs have the same keys.                                  *)
(***************************************************************************)

\* line 561: value and value != "Không có thông tin"
HasContent(value) == value # <<>> /\ value # NO_INFO

\* Mutant of MergeValue: the incoming value wins a tie of lengths.
MergeValueTieToIncoming(existing, value) ==
    IF HasContent(value)
    THEN IF ~HasContent(existing)
         THEN value
         ELSE IF existing # value /\ Len(value) >= Len(existing)
              THEN value
              ELSE existing
    ELSE existing

\* lines 561-568: the merged value of one key
MergeValue(existing, value) ==
    IF HasContent(value)
    THEN IF existing = <<>> \/ existing = NO_INFO
         THEN value
         ELSE IF existing # value /\ Len(value) > Len(existing)
              THEN value
              ELSE existing
    ELSE existing

\* lines 557-570
MergeDuplicateHerbs(h1, h2) ==
    [key \in DOMAIN h1 |-> MergeValue(h1[key], h2[key])]

\* The herbs the merge is applied to.
MergeHerbs ==
    [ten_viet_nam : {S_abc, S_abcd},
     ten_khoa_hoc : {<<>>, S_p, S_qq},
     mo_ta        : {<<>>, NO_INFO, S_ab, S_cd, S_abc, S_abcdef}]

Merge ==
    /\ merge_pc = "call"
    /\ merged' = MergeDuplicateHerbs(herb1, herb2)
    /\ merge_pc' = "returned"
    /\ UNCHANGED <<herb1, herb2>>

InitMerge ==
    /\ herb1 \in MergeHerbs /\ herb2 \in MergeHerbs
    /\ merged = None /\ merge_pc = "call"
    /\ IdleSplit /\ IdleRate /\ IdleDedup /\ IdleRun /\ IdleOther

NextMerge ==
    Merge /\ UNCHANGED <<splitVars, rateVars, dedupVars, runVars, otherVars>>

SpecMerge == InitMerge /\ [][NextMerge]_vars

(***************************************************************************)
(* _is_duplicate (dataset.py 525-551) and _deduplicate_results (572-623).  *)
(***************************************************************************)

\* lines 526-551
IsDuplicate(herb, existing_herbs, fuzzy) ==
    LET name == Strip(herb.ten_viet_nam)
        scientific_name == Strip(herb.ten_khoa_hoc)
    IN  IF name = <<>> \/ scientific_name = <<>>
        THEN TRUE                                   \* line 530: invalid entry
        ELSE \E i \in 1..Len(existing_herbs) :
                LET existing_name == Strip(existing_herbs[i].ten_viet_nam)
                    existing_sci  == Strip(existing_herbs[i].ten_khoa_hoc)
                IN  \/ Lower(name) = Lower(existing_name)
                    \/ /\ scientific_name # <<>> /\ existing_sci # <<>>
                       /\ Lower(scientific_name) = Lower(existing_sci)
                    \/ /\ fuzzy
                       /\ AtLeast(CalculateSimilarity(name, existing_name),
                                  SIMILARITY_THRESHOLD)

\* lines 584-591: the herb is merged into the first unique herb whose
\* ten_viet_nam (as it is, not stripped) is similar enough; into none when
\* there is no such herb
MergeIntoUnique(unique_herbs, herb) ==
    LET similar == {i \in 1..Len(unique_herbs) :
                      AtLeast(CalculateSimilarity(herb.ten_viet_nam,
                                                  unique_herbs[i].ten_viet_nam),
                              SIMILARITY_THRESHOLD)}
    IN  IF similar = {}
        THEN unique_herbs
        ELSE LET i == CHOOSE x \in similar : \A y \in similar : x <= y
             IN  [unique_herbs EXCEPT ![i] = MergeDuplicateHerbs(unique_herbs[i], herb)]

\* lines 575-591: the loop over data['vi_thuoc']
RECURSIVE UniqueHerbs(_, _, _)
UniqueHerbs(herbs, unique_herbs, fuzzy) ==
    IF herbs = <<>>
    THEN unique_herbs
    ELSE LET herb == Head(herbs)
         IN  UniqueHerbs(Tail(herbs),
                         IF ~IsDuplicate(herb, unique_herbs, fuzzy)
                         THEN Append(unique_herbs, herb)
                         ELSE MergeIntoUnique(unique_herbs, herb),
                         fuzzy)

\* Mutant of PrescriptionName: the name taken as it is.
PrescriptionNameAsGiven(prescription) == prescription.ten_bai_thuoc

\* line 600: name = prescription.get('ten_bai_thuoc', '').strip().lower()
PrescriptionName(prescription) == Lower(Strip(prescription.ten_bai_thuoc))

\* lines 596-603: the loop over data['bai_thuoc']
RECURSIVE UniquePrescriptions(_, _, _)
UniquePrescriptions(prescriptions, seen_prescriptions, unique_prescriptions) ==
    IF prescriptions = <<>>
    THEN unique_prescriptions
    ELSE LET prescription == Head(prescriptions)
             name == PrescriptionName(prescription)
         IN  IF name # <<>> /\ name \notin seen_prescriptions
             THEN UniquePrescriptions(Tail(prescriptions),
                                      seen_prescriptions \cup {name},
                                      Append(unique_prescriptions, prescription))
             ELSE UniquePrescriptions(Tail(prescriptions), seen_prescriptions,
                                      unique_prescriptions)

\* Mutant of FormulaKey: the dosage left out of the key.
FormulaKeyWithoutDosage(formula) ==
    <<Lower(Strip(formula.ten_bai_thuoc)),
      Lower(Strip(formula.ten_vi_thuoc)),
      <<>>>>

\* lines 610-614: the key of a formula line
FormulaKey(formula) ==
    <<Lower(Strip(formula.ten_bai_thuoc)),
      Lower(Strip(formula.ten_vi_thuoc)),
      Strip(formula.lieu_luong)>>

\* lines 606-617: the loop over data['cong_thuc']
RECURSIVE UniqueFormulas(_, _, _)
UniqueFormulas(formulas, seen_formulas, unique_formulas) ==
    IF formulas = <<>>
    THEN unique_formulas
    ELSE LET formula == Head(formulas)
             key == FormulaKey(formula)
         IN  IF key \notin seen_formulas /\ key[1] # <<>> /\ key[2] # <<>>
             THEN UniqueFormulas(Tail(formulas), seen_formulas \cup {key},
                                 Append(unique_formulas, formula))
             ELSE UniqueFormulas(Tail(formulas), seen_formulas, unique_formulas)

\* lines 572-623
DeduplicateResults(d, fuzzy) ==
    [vi_thuoc  |-> UniqueHerbs(d.vi_thuoc, <<>>, fuzzy),
     bai_thuoc |-> UniquePrescriptions(d.bai_thuoc, {}, <<>>),
     cong_thuc |-> UniqueFormulas(d.cong_thuc, {}, <<>>)]

\* An accumulated result with nothing in it (lines 682-689, 720, 735-739).
EmptyResults == [vi_thuoc |-> <<>>, bai_thuoc |-> <<>>, cong_thuc |-> <<>>]

Herb(name, sci, text) ==
    [ten_viet_nam |-> name, ten_khoa_hoc |-> sci, mo_ta |-> text]

\* The records an accumulated result is built from.
HerbPool ==
    {Herb(n, sc, NO_INFO) : n \in {S_abc, S_abcd, S_xy}, sc \in {S_p, S_qq}}
    \cup {Herb(S_ABC, S_p, S_ab), Herb(S_abc_sp, S_p, S_cd),
          Herb(S_abc, <<>>, S_ab), Herb(<<>>, S_p, S_ab)}

PrescriptionPool ==
    {[ten_bai_thuoc |-> n, chu_tri |-> c] :
        n \in {S_abc, S_ABC, <<>>}, c \in {S_ab}}
    \cup {[ten_bai_thuoc |-> S_abc_sp, chu_tri |-> S_cd],
          [ten_bai_thuoc |-> S_abcd, chu_tri |-> S_cd]}

FormulaPool ==
    {[ten_bai_thuoc |-> S_abc, ten_vi_thuoc |-> S_xy, lieu_luong |-> S_5g],
     [ten_bai_thuoc |-> S_ABC, ten_vi_thuoc |-> S_xy, lieu_luong |-> S_5g],
     [ten_bai_thuoc |-> S_abc, ten_vi_thuoc |-> S_xy, lieu_luong |-> S_9g],
     [ten_bai_thuoc |-> S_abc, ten_vi_thuoc |-> <<>>, lieu_luong |-> S_5g],
     [ten_bai_thuoc |-> <<>>, ten_vi_thuoc |-> S_xy, lieu_luong |-> S_5g]}

Records(d) == Len(d.vi_thuoc) + Len(d.bai_thuoc) + Len(d.cong_thuc)

\* The accumulated result grows by one record (lines 782-784 append to the
\* three lists).
AddHerb ==
    /\ dedup_pc = "build" /\ Records(data) < MaxRecords
    /\ \E herb \in HerbPool :
          data' = [data EXCEPT !.vi_thuoc = Append(@, herb)]
    /\ UNCHANGED <<use_fuzzy, pass1, pass2, dedup_pc>>

AddPrescription ==
    /\ dedup_pc = "build" /\ Records(data) < MaxRecords
    /\ \E prescription \in PrescriptionPool :
          data' = [data EXCEPT !.bai_thuoc = Append(@, prescription)]
    /\ UNCHANGED <<use_fuzzy, pass1, pass2, dedup_pc>>

AddFormula ==
    /\ dedup_pc = "build" /\ Records(data) < MaxRecords
    /\ \E formula \in FormulaPool :
          data' = [data EXCEPT !.cong_thuc = Append(@, formula)]
    /\ UNCHANGED <<use_fuzzy, pass1, pass2, dedup_pc>>

\* The pass over the accumulated result.
DedupOnce ==
    /\ dedup_pc = "build"
    /\ pass1' = DeduplicateResults(data, use_fuzzy)
    /\ dedup_pc' = "once"
    /\ UNCHANGED <<use_fuzzy, data, pass2>>

\* The pass again, over its own result.
DedupTwice ==
    /\ dedup_pc = "once"
    /\ pass2' = DeduplicateResults(pass1, use_fuzzy)
    /\ dedup_pc' = "twice"
    /\ UNCHANGED <<use_fuzzy, data, pass1>>

InitDedup ==
    /\ use_fuzzy \in BOOLEAN
    /\ data = EmptyResults /\ pass1 = None /\ pass2 = None
    /\ dedup_pc = "build"
    /\ IdleSplit /\ IdleRate /\ IdleMerge /\ IdleRun /\ IdleOther

NextDedup ==
    \/ AddHerb /\ UNCHANGED <<splitVars, rateVars, mergeVars, runVars, otherVars>>
    \/ AddPrescription /\ UNCHANGED <<splitVars, rateVars, mergeVars, runVars, otherVars>>
    \/ AddFormula /\ UNCHANGED <<splitVars, rateVars, mergeVars, runVars, otherVars>>
    \/ DedupOnce /\ UNCHANGED <<splitVars, rateVars, mergeVars, runVars, otherVars>>
    \/ DedupTwice /\ UNCHANGED <<splitVars, rateVars, mergeVars, runVars, otherVars>>

SpecDedup == InitDedup /\ [][NextDedup]_vars

(***************************************************************************)
(* process_pdf_file (dataset.py 710-841), _load_checkpoint (672-689) and   *)
(* _save_checkpoint (691-708).                                             *)
(*                                                                         *)
(* The remote service is deterministic: service.chunks[c] says, for the    *)
(* c-th SubDocument (from 1), whether its upload leaves the PROCESSING     *)
(* state in time, and what the structured extraction of each TextSlice     *)
(* that _chunk_pdf_pages returns for it yields; stopped_early says whether *)
(* _chunk_pdf_pages returned at line 442, with page windows left that it   *)
(* did not request.  The checkpoint file is NoFile when it does not exist. *)
(* Writes of the checkpoint file succeed.                                  *)
(***************************************************************************)

\* The documents and splitting settings of the runs (PAGES_PER_CHUNK and
\* OVERLAP_PAGES of settings.py, with small values): 5 pages make one
\* SubDocument, 10 pages make three.
DocConfigs ==
    {[total |-> 5,  ppc |-> 6, ov |-> 2],
     [total |-> 10, ppc |-> 6, ov |-> 2]}

\* The most SubDocuments a document of DocConfigs is split into.
ServiceChunks == 1..3

RECURSIVE SeqsUpTo(_, _)
SeqsUpTo(S, n) ==
    IF n = 0
    THEN {<<>>}
    ELSE LET shorter == SeqsUpTo(S, n - 1)
         IN  shorter \cup {Append(q, x) : q \in shorter, x \in S}

ChunkServices ==
    {[upload |-> "TimeoutError", slices |-> <<>>, stopped_early |-> FALSE]}
    \cup {[upload |-> "ok", slices |-> q, stopped_early |-> FALSE] :
             q \in SeqsUpTo({"result", "Failed"}, MaxSlices)}
    \cup {[upload |-> "ok", slices |-> q, stopped_early |-> TRUE] :
             q \in {<<>>, <<"result">>}}

\* What _call_gemini_with_retry returns for the k-th TextSlice of the c-th
\* SubDocument: None, or a validated result (lines 477-494).
StructuredResult(c, k, outcome) ==
    IF outcome = "Failed"
    THEN [returned |-> None]
    ELSE [returned |-> "result",
          vi_thuoc  |-> <<Herb(IF c = 1 THEN S_abc ELSE IF c = 2 THEN S_abcd ELSE S_xy,
                                IF k = 1 THEN S_p ELSE S_qq, NO_INFO)>>,
          bai_thuoc |-> <<>>,
          cong_thuc |-> <<>>]

\* line 778: EXTRACTION_PROMPT.format(text=...).  The prompt (lines 19-118)
\* holds the braces of its JSON example unescaped, so str.format takes
\* '\n  "vi_thuoc"' for a field name and raises KeyError, for every text.
PromptFormatRaises == TRUE

\* lines 782-784: the three lists extended
Extend(all_results, result) ==
    [vi_thuoc  |-> all_results.vi_thuoc \o result.vi_thuoc,
     bai_thuoc |-> all_results.bai_thuoc \o result.bai_thuoc,
     cong_thuc |-> all_results.cong_thuc \o result.cong_thuc]

\* Mutant of TextChunkLoop: the prompt is formatted for the first TextSlice
\* and line 778 raises from the second one on.
RECURSIVE TextChunkLoopRaisesLate(_, _, _, _, _, _)
TextChunkLoopRaisesLate(c, slices, k, all_results, gemini_calls, chunk_failed) ==
    IF k > Len(slices)
    THEN [all_results |-> all_results, raised |-> None,
          gemini_calls |-> gemini_calls, chunk_failed |-> chunk_failed]
    ELSE IF PromptFormatRaises /\ k > 1
         THEN [all_results |-> all_results, raised |-> "KeyError",
               gemini_calls |-> gemini_calls, chunk_failed |-> chunk_failed]
         ELSE LET result == StructuredResult(c, k, slices[k])
              IN  TextChunkLoopRaisesLate(c, slices, k + 1,
                                IF result.returned # None
                                THEN Extend(all_results, result)
                                ELSE all_results,
                                gemini_calls + 1,
                                IF result.returned # None
                                THEN chunk_failed
                                ELSE chunk_failed + 1)

\* lines 773-788: the loop over text_chunks from the k-th one on.  Returns
\* the accumulated result, whether an exception left the loop, how many
\* times _call_gemini_with_retry was called, and chunk_failed.
RECURSIVE TextChunkLoop(_, _, _, _, _, _)
TextChunkLoop(c, slices, k, all_results, gemini_calls, chunk_failed) ==
    IF k > Len(slices)
    THEN [all_results |-> all_results, raised |-> None,
          gemini_calls |-> gemini_calls, chunk_failed |-> chunk_failed]
    ELSE IF PromptFormatRaises
         THEN [all_results |-> all_results, raised |-> "KeyError",
               gemini_calls |-> gemini_calls, chunk_failed |-> chunk_failed]
         ELSE LET result == StructuredResult(c, k, slices[k])
              IN  TextChunkLoop(c, slices, k + 1,
                                IF result.returned # None             \* line 781
                                THEN Extend(all_results, result)
                                ELSE all_results,
                                gemini_calls + 1,
                                IF result.returned # None
                                THEN chunk_failed
                                ELSE chunk_failed + 1)                \* line 787

\* Mutant of SavedCheckpoint: the error is not written to the file.
SavedCheckpointWithoutError(processed_chunks, all_results, error) ==
    [exists           |-> TRUE,
     processed_chunks |-> processed_chunks,
     all_results      |-> all_results,
     last_error       |-> None]

\* lines 691-704: the checkpoint file written
SavedCheckpoint(processed_chunks, all_results, error) ==
    [exists           |-> TRUE,
     processed_chunks |-> processed_chunks,
     all_results      |-> all_results,
     last_error       |-> error]

\* No checkpoint file.
NoFile ==
    [exists |-> FALSE, processed_chunks |-> {}, all_results |-> EmptyResults,
     last_error |-> None]

\* lines 672-689 and 720: the checkpoint the run starts from
LoadedCheckpoint(file, skip_processed) ==
    IF skip_processed /\ file.exists
    THEN file
    ELSE SavedCheckpoint({}, EmptyResults, None)

\* Mutant of AlreadyProcessed: the test never matches (the path compared
\* with the stored base names).
AlreadyProcessedNever(chunk_id, processed_chunk_ids) == FALSE

\* line 748: chunk_id in processed_chunk_ids
AlreadyProcessed(chunk_id, processed_chunk_ids) ==
    chunk_id \in processed_chunk_ids

\* lines 745-817: one iteration of the loop over the SubDocuments, for the
\* c-th one, from the run state st.  Returns the run state after it and the
\* checkpoint file after it (the file itself when it is not written).
ChunkIteration(st, c, chunk_id, svc, file) ==
    LET next == [st EXCEPT !.chunk_idx = c]
    IN  IF AlreadyProcessed(chunk_id, st.processed_chunk_ids)
        THEN [run |-> next, file |-> file]                            \* line 750
        ELSE IF svc.upload # "ok"
        THEN \* line 759 raises, lines 808-817
             [run  |-> [next EXCEPT !.raised = @ \cup {c}],
              file |-> SavedCheckpoint(st.processed_chunk_ids, st.all_results,
                                       svc.upload)]
        ELSE LET loop == TextChunkLoop(c, svc.slices, 1, st.all_results, 0, 0)
                 after == [next EXCEPT
                             !.all_results = loop.all_results,
                             !.sliced = @ \cup {c},
                             !.stopped_early = IF svc.stopped_early  \* line 442
                                               THEN @ \cup {c} ELSE @,
                             !.structured = IF loop.gemini_calls > 0
                                            THEN @ \cup {c} ELSE @,
                             !.gemini_calls = [@ EXCEPT ![c] = loop.gemini_calls],
                             !.chunk_failed = [@ EXCEPT ![c] = loop.chunk_failed]]
             IN  IF loop.raised # None
                 THEN \* lines 808-817
                      [run  |-> [after EXCEPT !.raised = @ \cup {c}],
                       file |-> SavedCheckpoint(st.processed_chunk_ids,
                                                loop.all_results, loop.raised)]
                 ELSE \* lines 802-806
                      LET done == st.processed_chunk_ids \cup {chunk_id}
                      IN  [run  |-> [after EXCEPT !.processed_chunk_ids = done],
                           file |-> SavedCheckpoint(done, loop.all_results, None)]

\* The state of a run on entry of process_pdf_file.
NewRun(n) ==
    [pc |-> "start", runs |-> n, skip_processed |-> TRUE,
     loaded |-> {}, processed_chunk_ids |-> {}, all_results |-> EmptyResults,
     chunk_idx |-> 0, sliced |-> {}, stopped_early |-> {}, structured |-> {},
     gemini_calls |-> [c \in ServiceChunks |-> 0],
     chunk_failed |-> [c \in ServiceChunks |-> 0],
     raised |-> {},
     dedup_calls |-> 0, save_calls |-> 0, handed |-> EmptyResults,
     returned |-> EmptyResults]

\* lines 716-739: the input file checked, the checkpoint loaded, the splitter
\* entered.
LoadCheckpoint ==
    /\ run.pc = "start"
    /\ IF ~service.pdf_exists
       THEN /\ run' = [run EXCEPT !.pc = "FileNotFoundError"]      \* line 718
            /\ UNCHANGED <<start_idx, chunk_num, output_files, split_pc>>
       ELSE \E skip_processed \in BOOLEAN :
              LET loaded == LoadedCheckpoint(checkpoint, skip_processed)
              IN  /\ run' = [run EXCEPT
                               !.pc = "running",
                               !.skip_processed = skip_processed,
                               !.loaded = loaded.processed_chunks,
                               !.processed_chunk_ids = loaded.processed_chunks,
                               !.all_results = loaded.all_results]
                  /\ start_idx' = 0 /\ chunk_num' = 0 /\ output_files' = <<>>
                  /\ split_pc' = "while"
    /\ UNCHANGED <<total_pages, pages_per_chunk, overlap_pages, service, checkpoint>>

\* lines 745-817, one SubDocument
ProcessChunk ==
    /\ run.pc = "running" /\ split_pc = "returned"
    /\ run.chunk_idx < Len(output_files)
    /\ LET c == run.chunk_idx + 1
           it == ChunkIteration(run, c, output_files[c], service.chunks[c], checkpoint)
       IN  /\ run' = it.run
           /\ checkpoint' = it.file
    /\ UNCHANGED <<splitVars, service>>

\* Mutant of AfterLoop: the pass over the accumulated result left out.
AfterLoopWithoutDedup(st, fuzzy) ==
    [st EXCEPT !.handed = st.all_results, !.save_calls = @ + 1]

\* Mutant of AfterLoop: nothing is handed to _save_to_files when the
\* processing of a SubDocument raised.
AfterLoopSaveOnSuccessOnly(st, fuzzy) ==
    LET all_results == DeduplicateResults(st.all_results, fuzzy)
    IN  IF st.raised = {}
        THEN [st EXCEPT !.all_results = all_results, !.dedup_calls = @ + 1,
                        !.handed = all_results, !.save_calls = @ + 1]
        ELSE [st EXCEPT !.all_results = all_results, !.dedup_calls = @ + 1]

\* lines 827-828: all_results = self._deduplicate_results(all_results), then
\* self._save_to_files(all_results)
AfterLoop(st, fuzzy) ==
    LET all_results == DeduplicateResults(st.all_results, fuzzy)
    IN  [st EXCEPT !.all_results = all_results, !.dedup_calls = @ + 1,
                   !.handed = all_results, !.save_calls = @ + 1]

\* lines 819-841: the pass, the results saved, the checkpoint file removed.
\* _save_to_files may raise (line 670), which ends the run there.
Finish ==
    /\ run.pc = "running" /\ split_pc = "returned"
    /\ run.chunk_idx = Len(output_files)
    /\ \E saved \in BOOLEAN :
        LET after == AfterLoop(run, use_fuzzy)
        IN  IF saved
            THEN /\ run' = [after EXCEPT !.pc = "done",
                                         !.returned = after.all_results]
                 /\ checkpoint' = NoFile                             \* lines 830-831
            ELSE /\ run' = [after EXCEPT !.pc = "SaveError"]
                 /\ UNCHANGED checkpoint
    /\ UNCHANGED <<splitVars, service>>

\* The process is stopped from outside while the run is under way.
Kill ==
    /\ run.pc = "running"
    /\ run' = [run EXCEPT !.pc = "killed"]
    /\ UNCHANGED <<splitVars, service, checkpoint>>

\* process_pdf_file is called again, in a new process, on the same document.
Restart ==
    /\ run.pc \in {"killed", "SaveError", "done"}
    /\ run.runs < MaxRuns
    /\ run' = NewRun(run.runs + 1)
    /\ split_pc' = "idle" /\ start_idx' = 0 /\ chunk_num' = 0 /\ output_files' = <<>>
    /\ UNCHANGED <<total_pages, pages_per_chunk, overlap_pages, service, checkpoint>>

Init ==
    /\ \E doc \in DocConfigs :
          /\ total_pages = doc.total /\ pages_per_chunk = doc.ppc
          /\ overlap_pages = doc.ov
    /\ start_idx = 0 /\ chunk_num = 0 /\ output_files = <<>> /\ split_pc = "idle"
    /\ \/ service \in [pdf_exists : {TRUE}, chunks : [ServiceChunks -> ChunkServices]]
       \/ service = [pdf_exists |-> FALSE,
                     chunks |-> [c \in ServiceChunks |->
                                   [upload |-> "ok", slices |-> <<>>,
                                    stopped_early |-> FALSE]]]
    /\ checkpoint = NoFile
    /\ run = NewRun(1)
    /\ IdleRate /\ IdleMerge /\ IdleDedup /\ IdleOther

Next ==
    \/ LoadCheckpoint /\ UNCHANGED <<rateVars, mergeVars, dedupVars, otherVars>>
    \/ SplitIter /\ run.pc = "running"
                 /\ UNCHANGED <<rateVars, mergeVars, dedupVars, runVars, otherVars>>
    \/ SplitReturn /\ run.pc = "running"
                   /\ UNCHANGED <<rateVars, mergeVars, dedupVars, runVars, otherVars>>
    \/ ProcessChunk /\ UNCHANGED <<rateVars, mergeVars, dedupVars, otherVars>>
    \/ Finish /\ UNCHANGED <<rateVars, mergeVars, dedupVars, otherVars>>
    \/ Kill /\ UNCHANGED <<rateVars, mergeVars, dedupVars, otherVars>>
    \/ Restart /\ UNCHANGED <<rateVars, mergeVars, dedupVars, otherVars>>

Spec == Init /\ [][Next]_vars

\* The run of process_pdf_file over all SubDocuments from no checkpoint:
\* what it accumulates, and what it returns.
RECURSIVE AllIterations(_, _)
AllIterations(st, c) ==
    IF c > Len(output_files)
    THEN st
    ELSE AllIterations(ChunkIteration(st, c, output_files[c],
                                      service.chunks[c], NoFile).run, c + 1)

FromScratchResult ==
    DeduplicateResults(AllIterations(NewRun(1), 1).all_results, use_fuzzy)

(***************************************************************************)
(* validate_json_structure (utils.py 50-64).                               *)
(* A parsed JSON value is [is_dict |-> FALSE] or a dict, [is_dict |-> TRUE,*)
(* items |-> a function from the keys it has to their values].  A herb is  *)
(* a function from the keys it has to strings.                             *)
(***************************************************************************)

\* dict.get(key, default); dict.get(key) gives None, which is as false as ''
Get(d, key, default) == IF key \in DOMAIN d THEN d[key] ELSE default

\* dict.setdefault(key, default) (lines 54-56)
SetDefault(d, key, default) ==
    [k \in DOMAIN d \cup {key} |-> IF k \in DOMAIN d THEN d[k] ELSE default]

\* line 60: herb.get('ten_viet_nam') and herb.get('ten_khoa_hoc')
HerbPassesValidator(herb) ==
    Get(herb, "ten_viet_nam", <<>>) # <<>> /\ Get(herb, "ten_khoa_hoc", <<>>) # <<>>

\* lines 50-64
ValidateJsonStructure(d) ==
    IF ~d.is_dict
    THEN [is_dict |-> TRUE,
          items |-> [vi_thuoc |-> <<>>, bai_thuoc |-> <<>>, cong_thuc |-> <<>>]]
    ELSE LET d1 == SetDefault(d.items, "vi_thuoc", <<>>)
             d2 == SetDefault(d1, "bai_thuoc", <<>>)
             d3 == SetDefault(d2, "cong_thuc", <<>>)
         IN  [is_dict |-> TRUE,
              items |-> [d3 EXCEPT !.vi_thuoc = SelectSeq(@, HerbPassesValidator)]]

\* The herbs of the parsed objects: each identity key missing, empty or set.
ParsedHerbs ==
    UNION {[K -> {<<>>, S_abc}] : K \in SUBSET {"ten_viet_nam", "ten_khoa_hoc"}}

\* The parsed values: a value that is no dict, and the dicts with any of the
\* three keys, vi_thuoc with up to MaxParsedHerbs herbs.
ParsedValues ==
    {[is_dict |-> FALSE, items |-> <<>>]}
    \cup {[is_dict |-> TRUE, items |-> [k \in K |-> IF k = "vi_thuoc" THEN h ELSE <<>>]] :
            K \in SUBSET {"vi_thuoc", "bai_thuoc", "cong_thuc"},
            h \in SeqsUpTo(ParsedHerbs, MaxParsedHerbs)}

Validate ==
    /\ validate_pc = "call"
    /\ validated' = ValidateJsonStructure(json_data)
    /\ validate_pc' = "returned"
    /\ UNCHANGED json_data

InitValidate ==
    /\ json_data \in ParsedValues
    /\ validated = None /\ validate_pc = "call"
    /\ IdleSplit /\ IdleRate /\ IdleMerge /\ IdleDedup /\ IdleRun
    /\ IdleRep /\ IdleRetry /\ IdleChunk

NextValidate ==
    Validate /\ UNCHANGED <<splitVars, rateVars, mergeVars, dedupVars, runVars,
                            repVars, retryVars, chunkVars>>

SpecValidate == InitValidate /\ [][NextValidate]_vars

(***************************************************************************)
(* is_repetitive (dataset.py 217-237).                                     *)
(***************************************************************************)

\* str.split(): the words between runs of blanks
RECURSIVE Split(_)
Split(s) ==
    LET t == LStrip(s)
    IN  IF t = <<>>
        THEN <<>>
        ELSE LET end == IF \E i \in 1..Len(t) : t[i] = " "
                        THEN (CHOOSE i \in 1..Len(t) :
                                 t[i] = " " /\ \A j \in 1..(i - 1) : t[j] # " ") - 1
                        ELSE Len(t)
             IN  <<SubSeq(t, 1, end)>> \o Split(SubSeq(t, end + 1, Len(t)))

\* ' '.join(words)
RECURSIVE Join(_)
Join(words) ==
    IF words = <<>>
    THEN <<>>
    ELSE IF Len(words) = 1
         THEN words[1]
         ELSE words[1] \o <<" ">> \o Join(Tail(words))

\* Mutant of MoreThan: the comparison turned round.
LessThan(ratio, pct) == ratio.num * 100 < pct * ratio.den

\* line 237: ratio > pct / 100
MoreThan(ratio, pct) == ratio.num * 100 > pct * ratio.den

\* line 217: threshold: float = 0.6, in hundredths
DEFAULT_THRESHOLD == 60

\* lines 219-237
IsRepetitive(t, threshold) ==
    IF Len(t) < 100
    THEN FALSE
    ELSE LET words == Split(t)
         IN  IF Len(words) < 20
             THEN FALSE
             ELSE LET chunk_size == Len(words) \div 3
                  IN  IF chunk_size < 10
                      THEN FALSE
                      ELSE LET chunk1 == Join(SubSeq(words, 1, chunk_size))
                               chunk2 == Join(SubSeq(words, chunk_size + 1,
                                                     chunk_size * 2))
                               chunk3 == Join(SubSeq(words, chunk_size * 2 + 1,
                                                     chunk_size * 3))
                               similarity_12 == CalculateSimilarity(chunk1, chunk2)
                               similarity_23 == CalculateSimilarity(chunk2, chunk3)
                           IN  \/ MoreThan(similarity_12, threshold)
                               \/ MoreThan(similarity_23, threshold)

\* The texts handed to is_repetitive are built from three groups of words.
\* A group has n words of wlen letters each; the groups of two different
\* kinds have no letter in common.
GroupKinds == {"ab", "cd", "ef"}

Letters(kind) ==
    CASE kind = "ab" -> <<"a", "b">>
      [] kind = "cd" -> <<"c", "d">>
      [] kind = "ef" -> <<"e", "f">>

WordGroup(kind, n, wlen) ==
    [i \in 1..n |-> [j \in 1..wlen |-> Letters(kind)[(i % 2) + 1]]]

GroupWords == {2, 9, 10, MaxGroupWords}
WordLens == {1, 3}

RepTexts ==
    {Join(WordGroup(k[1], n, wlen) \o WordGroup(k[2], n, wlen)
              \o WordGroup(k[3], n, wlen)) :
        k \in GroupKinds \X GroupKinds \X GroupKinds,
        n \in GroupWords, wlen \in WordLens}

CallIsRepetitive ==
    /\ rep_pc = "call"
    /\ repetitive' = IsRepetitive(rep_text, DEFAULT_THRESHOLD)
    /\ rep_pc' = "returned"
    /\ UNCHANGED rep_text

InitRep ==
    /\ rep_text \in RepTexts
    /\ repetitive = FALSE /\ rep_pc = "call"
    /\ IdleSplit /\ IdleRate /\ IdleMerge /\ IdleDedup /\ IdleRun
    /\ IdleValidate /\ IdleRetry /\ IdleChunk

NextRep ==
    CallIsRepetitive /\ UNCHANGED <<splitVars, rateVars, mergeVars, dedupVars,
                                    runVars, validateVars, retryVars,
                                    chunkVars>>

SpecRep == InitRep /\ [][NextRep]_vars

(***************************************************************************)
(* The retry loops of _extract_with_model (dataset.py 239-297) and of      *)
(* _call_gemini_with_retry (449-523).  One action is one pass through the  *)
(* loop body: the generate call, what comes of it, and the sleep before    *)
(* the next pass.  Waits are in seconds, jitters in 1/10000 of a second.   *)
(* An error message is the set of the marks the code looks for in it.      *)
(***************************************************************************)

\* The settings of settings.py (lines 34-37) and other values of them.
RetrySettings ==
    {[MAX_RETRIES |-> 5, INITIAL_BACKOFF |-> 10, BACKOFF_MULTIPLIER |-> 2,
      MAX_BACKOFF |-> 120],
     [MAX_RETRIES |-> 3, INITIAL_BACKOFF |-> 5, BACKOFF_MULTIPLIER |-> 3,
      MAX_BACKOFF |-> 30],
     [MAX_RETRIES |-> 4, INITIAL_BACKOFF |-> 1, BACKOFF_MULTIPLIER |-> 1,
      MAX_BACKOFF |-> 60],
     [MAX_RETRIES |-> 3, INITIAL_BACKOFF |-> 10, BACKOFF_MULTIPLIER |-> 2,
      MAX_BACKOFF |-> 15]}

\* str(e) of the exceptions of the generate call
ErrorMessages == {{"429"}, {"RESOURCE_EXHAUSTED"}, {"quota"}, {}}

\* random.random(), in thousandths: a value of [0, 1)
Randoms == {0, 500, 999}

RECURSIVE Pow(_, _)
Pow(b, k) == IF k = 0 THEN 1 ELSE b * Pow(b, k - 1)

\* lines 278 and 506: the test of error_str
IsQuotaError(ex, message) ==
    \/ "429" \in message
    \/ "RESOURCE_EXHAUSTED" \in message
    \/ ex = "_extract_with_model" /\ "quota" \in message

\* Mutant of BackoffWait: the ceiling left out.
BackoffWaitUncapped(cfg, k) ==
    cfg.INITIAL_BACKOFF * Pow(cfg.BACKOFF_MULTIPLIER, k)

\* lines 279-282 and 507-510: wait_time
BackoffWait(cfg, k) ==
    Min(cfg.INITIAL_BACKOFF * Pow(cfg.BACKOFF_MULTIPLIER, k), cfg.MAX_BACKOFF)

\* lines 283 and 511: jitter = wait_time * 0.1 * (0.5 - random.random())
Jitter(wait_time, r) == wait_time * (500 - r)

\* An entry of attempt_log.
Slept(k, outcome, message, wait_time, jitter) ==
    [attempt |-> k, outcome |-> outcome, message |-> message,
     slept |-> TRUE, wait_time |-> wait_time, jitter |-> jitter]

NotSlept(k, outcome, message) ==
    [attempt |-> k, outcome |-> outcome, message |-> message,
     slept |-> FALSE, wait_time |-> 0, jitter |-> 0]

\* Mutant of RateLimitedCall: the rate limiter asked before the first
\* attempt only.
RateLimitedCallFirstOnly(trace) ==
    IF trace = <<>>
    THEN <<"wait_for_rate_limit", "generate_content">>
    ELSE Append(trace, "generate_content")

\* lines 243-253 and 456-469: self.wait_for_rate_limit(), then
\* generate_content, which returns or raises before the next statement
RateLimitedCall(trace) ==
    trace \o <<"wait_for_rate_limit", "generate_content">>

\* Mutant of NextAttempt: the loop makes one pass more.
NextAttemptOneMore(entry) ==
    /\ attempt_log' = Append(attempt_log, entry)
    /\ attempt' = attempt + 1
    /\ IF attempt + 1 < settings.MAX_RETRIES + 1
       THEN UNCHANGED <<retry_result, retry_pc>>
       ELSE retry_result' = None /\ retry_pc' = "returned"

\* The loop goes on with the next index, or ends and None is returned
\* (lines 297 and 522-523).
NextAttempt(entry) ==
    /\ attempt_log' = Append(attempt_log, entry)
    /\ attempt' = attempt + 1
    /\ IF attempt + 1 < settings.MAX_RETRIES
       THEN UNCHANGED <<retry_result, retry_pc>>
       ELSE retry_result' = None /\ retry_pc' = "returned"

\* The function returns from inside the loop.
ReturnFromLoop(entry, result) ==
    /\ attempt_log' = Append(attempt_log, entry)
    /\ retry_result' = result /\ retry_pc' = "returned"
    /\ UNCHANGED attempt

\* lines 241-295: one pass of the loop of _extract_with_model
ExtractWithModelAttempt ==
    /\ retry_pc = "loop" /\ extractor = "_extract_with_model"
    /\ generate_calls' = generate_calls + 1
    /\ call_trace' = RateLimitedCall(call_trace)
    /\ LET last == ~(attempt < settings.MAX_RETRIES - 1)
       IN  \/ ReturnFromLoop(NotSlept(attempt, "text", {}), "text")   \* line 274
           \/ \E outcome \in {"empty", "repetitive"} :                \* 255-272
                IF last
                THEN ReturnFromLoop(NotSlept(attempt, outcome, {}), None)
                ELSE NextAttempt(Slept(attempt, outcome, {}, 5, 0))
           \/ \E message \in ErrorMessages, r \in Randoms :           \* 276-295
                IF IsQuotaError(extractor, message)
                THEN LET wait_time == BackoffWait(settings, attempt)
                     IN  NextAttempt(Slept(attempt, "error", message, wait_time,
                                           Jitter(wait_time, r)))
                ELSE IF last
                     THEN ReturnFromLoop(NotSlept(attempt, "error", message), None)
                     ELSE NextAttempt(Slept(attempt, "error", message, 5, 0))
    /\ UNCHANGED <<extractor, settings>>

\* lines 452-520: one pass of the loop of _call_gemini_with_retry.  An empty
\* response (response.text is None) raises AttributeError at line 471 and is
\* handled as an error with a message without marks.
CallGeminiAttempt ==
    /\ retry_pc = "loop" /\ extractor = "_call_gemini_with_retry"
    /\ generate_calls' = generate_calls + 1
    /\ call_trace' = RateLimitedCall(call_trace)
    /\ LET last == ~(attempt < settings.MAX_RETRIES - 1)
       IN  \/ ReturnFromLoop(NotSlept(attempt, "result", {}), "result")  \* line 494
           \/ NextAttempt(Slept(attempt, "repetitive", {}, 5, 0))     \* 472-475
           \/ NextAttempt(NotSlept(attempt, "malformed", {}))         \* 496-500
           \/ \E message \in ErrorMessages, r \in Randoms :           \* 502-520
                IF IsQuotaError(extractor, message)
                THEN LET wait_time == BackoffWait(settings, attempt)
                     IN  NextAttempt(Slept(attempt, "error", message, wait_time,
                                           Jitter(wait_time, r)))
                ELSE IF last
                     THEN NextAttempt(NotSlept(attempt, "error", message))
                     ELSE NextAttempt(Slept(attempt, "error", message,
                                            settings.INITIAL_BACKOFF * Pow(2, attempt),
                                            0))
    /\ UNCHANGED <<extractor, settings>>

InitRetry ==
    /\ extractor \in {"_extract_with_model", "_call_gemini_with_retry"}
    /\ settings \in RetrySettings
    /\ attempt = 0 /\ attempt_log = <<>> /\ generate_calls = 0
    /\ call_trace = <<>>
    /\ retry_result = None /\ retry_pc = "loop"
    /\ IdleSplit /\ IdleRate /\ IdleMerge /\ IdleDedup /\ IdleRun
    /\ IdleValidate /\ IdleRep /\ IdleChunk

NextRetry ==
    \/ ExtractWithModelAttempt
          /\ UNCHANGED <<splitVars, rateVars, mergeVars, dedupVars, runVars,
                         validateVars, repVars, chunkVars>>
    \/ CallGeminiAttempt
          /\ UNCHANGED <<splitVars, rateVars, mergeVars, dedupVars, runVars,
                         validateVars, repVars, chunkVars>>

SpecRetry == InitRetry /\ [][NextRetry]_vars

(***************************************************************************)
(* _chunk_pdf_pages (dataset.py 303-447).  One action is one pass through  *)
(* the while loop: one page window.  A text is known by its length, by     *)
(* whether is_repetitive holds of it and by the model it came from; what   *)
(* is not a text (None) is NoText.  A response is what the retry loop of   *)
(* _extract_with_model ends on.                                            *)
(***************************************************************************)

NoText == [is_text |-> FALSE, len |-> 0, repetitive |-> FALSE, model |-> None]

Text(n, rep, model_name) ==
    [is_text |-> TRUE, len |-> n, repetitive |-> rep, model |-> model_name]

\* The lengths of the texts: empty, shorter than the MIN_OCR_LENGTH of
\* ChunkSettings, and not shorter.
TextLens == {0, 1, 2}

\* The responses of the remote model to the requests for one page window:
\* no response that can be used, or a text (stripped, line 262).
Responses ==
    {[kind |-> "none", len |-> 0, repetitive |-> FALSE]}
    \cup [kind : {"text"}, len : TextLens, repetitive : BOOLEAN]

\* Mutant of ExtractWithModel: the repetition test left out.
ExtractWithModelUnchecked(response, model_name) ==
    IF response.kind = "none"
    THEN NoText
    ELSE Text(response.len, response.repetitive, model_name)

\* lines 241-297: what _extract_with_model returns
ExtractWithModel(response, model_name) ==
    IF response.kind = "none" \/ response.repetitive
    THEN NoText                                          \* lines 260, 272, 297
    ELSE Text(response.len, FALSE, model_name)           \* line 274

\* The truth value of a text of Python: None and '' are false.
Truthy(t) == t.is_text /\ t.len > 0

\* The settings and parameters of the calls: PROCESS_PAGES_PER_REQUEST and
\* PROCESS_OVERLAP_PAGES (settings.py 22-23), MIN_OCR_LENGTH and
\* RETRY_WITH_FALLBACK (settings.py 40-41), with small values.
ChunkSettings ==
    [total_pages : 1..MaxWindowPages,
     pages       : {[per_request |-> 2, overlap |-> 1],
                    [per_request |-> 3, overlap |-> 1]},
     MIN_OCR_LENGTH : {2},
     RETRY_WITH_FALLBACK : BOOLEAN]

\* lines 405-406: the test before the fallback model is asked
UseFallback(t, cfg) ==
    Truthy(t) /\ t.len < cfg.MIN_OCR_LENGTH /\ cfg.RETRY_WITH_FALLBACK

\* lines 419-420: the text kept after the fallback model was asked
KeptText(t, fallback_text) ==
    IF Truthy(fallback_text) /\ fallback_text.len > t.len
    THEN fallback_text
    ELSE t

\* line 426: text and len(text) >= MIN_OCR_LENGTH
Valid(t, cfg) == Truthy(t) /\ t.len >= cfg.MIN_OCR_LENGTH

\* line 315
max_consecutive_failures == 3

\* Mutant of TooManyFailures: one failure more is let through.
TooManyFailuresLate(n) == n > max_consecutive_failures

\* line 440
TooManyFailures(n) == n >= max_consecutive_failures

\* lines 317-444: one pass of the while loop
ChunkWindow ==
    /\ chunk_pc = "while"
    /\ start_page <= chunk_settings.total_pages                      \* line 317
    /\ \E response \in Responses, fallback_response \in Responses :
         LET cfg == chunk_settings
             step == cfg.pages.per_request - cfg.pages.overlap       \* line 311
             end_page == Min(start_page + cfg.pages.per_request - 1,
                             cfg.total_pages)                        \* line 318
             primary == ExtractWithModel(response, "OCR_MODEL_NAME") \* 396-402
             asked == UseFallback(primary, cfg)
             fallback_text ==
                 IF asked
                 THEN ExtractWithModel(fallback_response, "OCR_FALLBACK_MODEL")
                 ELSE NoText
             text == IF asked THEN KeptText(primary, fallback_text) ELSE primary
             entry == [start_page |-> start_page, end_page |-> end_page,
                       primary |-> primary,
                       fallback_calls |-> IF asked THEN 1 ELSE 0,
                       fallback_text |-> fallback_text,
                       text |-> text,
                       accepted |-> Valid(text, cfg),
                       failures_before |-> consecutive_failures]
         IN  /\ window_log' = Append(window_log, entry)
             /\ IF Valid(text, cfg)
                THEN /\ chunks' = Append(chunks,                     \* 427-433
                                         [text |-> text, start_page |-> start_page,
                                          end_page |-> end_page,
                                          position |-> chunk_position])
                     /\ chunk_position' = chunk_position + 1
                     /\ consecutive_failures' = 0
                     /\ start_page' = start_page + step              \* line 444
                     /\ UNCHANGED chunk_pc
                ELSE /\ consecutive_failures' = consecutive_failures + 1
                     /\ UNCHANGED <<chunks, chunk_position>>
                     /\ IF TooManyFailures(consecutive_failures + 1)
                        THEN /\ chunk_pc' = "returned"               \* line 442
                             /\ UNCHANGED start_page
                        ELSE /\ start_page' = start_page + step
                             /\ UNCHANGED chunk_pc
    /\ UNCHANGED chunk_settings

\* lines 446-447: the loop left, chunks returned
ChunkReturn ==
    /\ chunk_pc = "while"
    /\ start_page > chunk_settings.total_pages
    /\ chunk_pc' = "returned"
    /\ UNCHANGED <<chunk_settings, start_page, chunk_position,
                   consecutive_failures, chunks, window_log>>

InitChunk ==
    /\ chunk_settings \in ChunkSettings
    /\ start_page = 1 /\ chunk_position = 0 /\ consecutive_failures = 0  \* 310-314
    /\ chunks = <<>> /\ window_log = <<>> /\ chunk_pc = "while"
    /\ IdleSplit /\ IdleRate /\ IdleMerge /\ IdleDedup /\ IdleRun
    /\ IdleValidate /\ IdleRep /\ IdleRetry

NextChunk ==
    \/ ChunkWindow /\ UNCHANGED <<splitVars, rateVars, mergeVars, dedupVars, runVars,
                                  validateVars, repVars, retryVars>>
    \/ ChunkReturn /\ UNCHANGED <<splitVars, rateVars, mergeVars, dedupVars, runVars,
                                  validateVars, repVars, retryVars>>

SpecChunk == InitChunk /\ [][NextChunk]_vars

(***************************************************************************)
(* Properties of the splitter.                                             *)
(***************************************************************************)

\* C4: for total_pages >= 1 and 0 <= overlap_pages < pages_per_chunk the
\* emitted SubDocuments cover [1, total_pages] without a gap: the first starts
\* at page 1, the last ends at total_pages, each next one starts no later
\* than the page after the previous one's end, and every page is in one.
C4_SplitterCoverage ==
    (split_pc = "returned" /\ total_pages >= 1 /\ ValidSplitConfig) =>
        /\ Len(output_files) >= 1
        /\ output_files[1].first = 1
        /\ Last(output_files).last = total_pages
        /\ \A i \in 1..(Len(output_files) - 1) :
              output_files[i + 1].first <= output_files[i].last + 1
        /\ UNION {Pages(output_files[i]) : i \in 1..Len(output_files)}
              = 1..total_pages

\* A run with overlap that ended through the break of line 171, with several
\* SubDocuments emitted.
C4_Witness ==
    /\ split_pc = "returned" /\ ValidSplitConfig /\ overlap_pages >= 2
    /\ Len(output_files) >= 3
    /\ start_idx < total_pages

\* C5: a 10-page document with pages_per_chunk = 6 and overlap_pages = 2
\* yields exactly two SubDocuments, [1-6] and [5-10], in that order.
C5_TenPagesTwoSubDocuments ==
    (split_pc = "returned" /\ total_pages = 10 /\ pages_per_chunk = 6
        /\ overlap_pages = 2) =>
        [i \in 1..Len(output_files) |->
            <<output_files[i].first, output_files[i].last>>]
          = << <<1, 6>>, <<5, 10>> >>

\* C6: for overlap_pages < pages_per_chunk every two consecutive SubDocuments
\* share exactly overlap_pages pages, no SubDocument after the first has fewer
\* than overlap_pages pages, and the pages left when the loop breaks are
\* inside the last emitted SubDocument.
C6_SplitterOverlap ==
    (split_pc = "returned" /\ total_pages >= 1 /\ ValidSplitConfig) =>
        /\ \A i \in 1..(Len(output_files) - 1) :
              Cardinality(Pages(output_files[i]) \cap Pages(output_files[i + 1]))
                = overlap_pages
        /\ \A i \in 2..Len(output_files) :
              Cardinality(Pages(output_files[i])) >= overlap_pages
        /\ (start_idx < total_pages) =>
              (start_idx + 1)..total_pages \subseteq Pages(Last(output_files))

\* A remainder smaller than the overlap was left out (the break was taken)
\* after at least two SubDocuments.
C6_Witness ==
    /\ split_pc = "returned" /\ ValidSplitConfig /\ overlap_pages >= 2
    /\ Len(output_files) >= 2
    /\ start_idx < total_pages
    /\ total_pages - start_idx < overlap_pages

\* C7: with overlap_pages >= pages_per_chunk the splitter emits no SubDocument
\* and does not return normally (it fails with InvalidRangeError).
C7_InvalidRangeRejected ==
    ~ValidSplitConfig => (output_files = <<>> /\ split_pc # "returned")

(***************************************************************************)
(* Properties of the rate limiter.                                         *)
(***************************************************************************)

\* C8: with REQUESTS_PER_MINUTE = N, no window of 60 seconds [t, t + 60)
\* holds more than N recorded timestamps: the timestamp recorded N calls
\* after another one is at least 60 seconds later.
C8_RateWindow ==
    \A i \in 1..Len(recorded) :
        (i + rpm <= Len(recorded)) => recorded[i + rpm] - recorded[i] >= WINDOW

\* More calls than the limit were recorded, by callers that arrived at once.
C8_Witness ==
    /\ rpm >= 2
    /\ Len(recorded) > rpm
    /\ now <= 2 * WINDOW + 4

\* C9: every acquisition records its timestamp (as the newest entry of
\* request_times and in last_request_time), and two consecutive recorded
\* timestamps are at least 60 / REQUESTS_PER_MINUTE seconds apart.
C9_FloorDelay ==
    /\ Len(recorded) = calls
    /\ Len(request_times) <= rpm
    /\ calls > 0 =>
          /\ request_times # <<>>
          /\ Last(request_times) = Last(recorded)
          /\ last_request_time # NoTime
          /\ last_request_time >= Last(recorded)
    /\ \A i \in 1..(Len(recorded) - 1) :
          (recorded[i + 1] - recorded[i]) * rpm >= WINDOW

\* Two calls exactly the minimum spacing apart, the second of a caller that
\* arrived too early, and a later call that took the window-full sleep.
C9_Witness ==
    /\ rpm = 3
    /\ Len(recorded) = 4
    /\ (recorded[2] - recorded[1]) * rpm = WINDOW
    /\ recorded[4] - recorded[1] > WINDOW

(***************************************************************************)
(* Properties of the merge rule.                                           *)
(***************************************************************************)

Blank(v) == v = <<>> \/ v = NO_INFO

\* C10: in the herb returned by the merge, for every field: an existing
\* empty or sentinel value is replaced by an incoming real value; of two
\* different real values the strictly longer one is kept, the existing one on
\* a tie of lengths; an incoming empty or sentinel value changes nothing.
C10_MergeRule ==
    merge_pc = "returned" =>
        \A key \in DOMAIN herb1 :
            LET e == herb1[key]
                v == herb2[key]
                m == merged[key]
            IN  /\ (Blank(e) /\ ~Blank(v)) => m = v
                /\ (~Blank(e) /\ ~Blank(v) /\ e # v) =>
                      m = (IF Len(v) > Len(e) THEN v ELSE e)
                /\ Blank(v) => m = e

\* One merge of two herbs of the same name where a missing field is filled
\* and a longer text replaces a shorter one.
C10_Witness ==
    /\ merge_pc = "returned"
    /\ herb1.ten_viet_nam = herb2.ten_viet_nam
    /\ herb1.ten_khoa_hoc = <<>> /\ herb2.ten_khoa_hoc = S_p
    /\ herb1.mo_ta = S_ab /\ herb2.mo_ta = S_abcdef
    /\ merged.ten_khoa_hoc = S_p /\ merged.mo_ta = S_abcdef

(***************************************************************************)
(* Properties of the deduplication pass.                                   *)
(***************************************************************************)

\* C2: the pass is idempotent: applied to its own result it returns that
\* result, for every accumulated result.
C2_DedupIdempotent ==
    dedup_pc = "twice" => pass2 = pass1

(***************************************************************************)
(* Properties of process_pdf_file.                                         *)
(***************************************************************************)

\* The run started from a checkpoint that lists the first two of three
\* SubDocuments as processed.
ResumedAfterTwoOfThree ==
    /\ Len(output_files) = 3
    /\ run.loaded = {output_files[1], output_files[2]}

\* C1: a run resumed from a checkpoint that lists SubDocuments 0 and 1 of
\* three as processed runs slice extraction and structured extraction for no
\* SubDocument but the third, and returns what a run from scratch over the
\* three SubDocuments returns.
C1_CheckpointResume ==
    (run.pc = "done" /\ split_pc = "returned" /\ ResumedAfterTwoOfThree) =>
        /\ run.sliced \subseteq {3}
        /\ run.structured \subseteq {3}
        /\ run.returned = FromScratchResult

\* A resumed run of that kind that went through the third SubDocument and
\* ended.
C1_Witness ==
    /\ run.pc = "done" /\ split_pc = "returned" /\ ResumedAfterTwoOfThree
    /\ run.runs = 2
    /\ run.sliced = {3}

\* C3: when the processing of a SubDocument raised during the run, the
\* checkpoint file still exists when the run ends.
C3_CheckpointKeptAfterFailure ==
    (run.pc = "done" /\ run.raised # {}) => checkpoint.exists

(***************************************************************************)
(* Properties of the herbs of the deduplication pass.                      *)
(***************************************************************************)

\* Both identity fields of the herb are present.
BothNames(herb) ==
    Strip(herb.ten_viet_nam) # <<>> /\ Strip(herb.ten_khoa_hoc) # <<>>

\* The herb is a duplicate of this kept herb: by name, by scientific name or
\* by similarity of names.
Matches(herb, existing, fuzzy) == IsDuplicate(herb, <<existing>>, fuzzy)

\* The similarity of the names of a is no less than that of b.
NoLessSimilar(herb, a, b) ==
    LET ra == CalculateSimilarity(Strip(herb.ten_viet_nam), Strip(a.ten_viet_nam))
        rb == CalculateSimilarity(Strip(herb.ten_viet_nam), Strip(b.ten_viet_nam))
    IN  ra.num * rb.den >= rb.num * ra.den

\* The kept herbs before the last herb of the input is looked at.
KeptBeforeLast ==
    UniqueHerbs(SubSeq(data.vi_thuoc, 1, Len(data.vi_thuoc) - 1), <<>>, use_fuzzy)

\* C11: a herb with both identity fields that is a duplicate of a kept herb
\* is merged into a kept herb it matches best (no matching kept herb has a
\* more similar name): the pass returns the kept herbs with that one replaced
\* by the merge, and with nothing else changed.
C11_DuplicateMergedIntoBestMatch ==
    (dedup_pc = "once" /\ data.vi_thuoc # <<>>) =>
        LET herb == Last(data.vi_thuoc)
            kept == KeptBeforeLast
            matching == {i \in 1..Len(kept) : Matches(herb, kept[i], use_fuzzy)}
            best == {i \in matching :
                       \A j \in matching : NoLessSimilar(herb, kept[i], kept[j])}
        IN  (BothNames(herb) /\ matching # {}) =>
                \E i \in best :
                    pass1.vi_thuoc =
                        [kept EXCEPT ![i] = MergeDuplicateHerbs(kept[i], herb)]

\* C12: a herb that misses its Vietnamese name or its scientific name is
\* discarded: the pass returns what it returns for the input without such
\* herbs, and no returned herb misses an identity field.
C12_InvalidHerbDiscarded ==
    dedup_pc = "once" =>
        /\ pass1.vi_thuoc =
              UniqueHerbs(SelectSeq(data.vi_thuoc, BothNames), <<>>, use_fuzzy)
        /\ \A i \in 1..Len(pass1.vi_thuoc) : BothNames(pass1.vi_thuoc[i])

(***************************************************************************)
(* Properties of validate_json_structure.                                  *)
(***************************************************************************)

\* The herb has at least one of its two names.
HasAName(herb) ==
    Get(herb, "ten_viet_nam", <<>>) # <<>> \/ Get(herb, "ten_khoa_hoc", <<>>) # <<>>

\* C13: the returned object has the three sequences, a missing one empty and
\* bai_thuoc and cong_thuc as they were, and its vi_thuoc is the given one
\* without the herbs that miss both names: a herb with at least one of the
\* two names is kept.
C13_ValidatorKeepsNamedHerbs ==
    validate_pc = "returned" =>
        LET given == IF json_data.is_dict THEN json_data.items ELSE <<>>
        IN  /\ validated.is_dict
            /\ {"vi_thuoc", "bai_thuoc", "cong_thuc"} \subseteq DOMAIN validated.items
            /\ validated.items.bai_thuoc = Get(given, "bai_thuoc", <<>>)
            /\ validated.items.cong_thuc = Get(given, "cong_thuc", <<>>)
            /\ validated.items.vi_thuoc =
                  SelectSeq(Get(given, "vi_thuoc", <<>>), HasAName)

(***************************************************************************)
(* Properties of the loop over the SubDocuments.                           *)
(***************************************************************************)

\* The SubDocuments whose processing raised in this step.
RaisedInStep == run'.raised \ run.raised

\* C14 (state part): a SubDocument whose processing raised is not in the
\* processed set, and a run that ended went through every SubDocument: each
\* one was skipped as processed, was processed, or raised.
C14_NoAbort ==
    (run.pc \in {"running", "done"} /\ split_pc = "returned") =>
        /\ \A c \in run.raised : output_files[c] \notin run.processed_chunk_ids
        /\ run.pc = "done" =>
              \A c \in 1..Len(output_files) :
                  c \in run.raised \/ output_files[c] \in run.processed_chunk_ids

\* C14 (step part): the step in which the processing of a SubDocument raises
\* writes a checkpoint that carries the error message and the processed set
\* as it was, and leaves the run in the loop, at the next SubDocument.
C14_CheckpointOnError ==
    (run.pc = "running" /\ run'.pc = "running" /\ RaisedInStep # {}) =>
        /\ checkpoint'.exists
        /\ checkpoint'.last_error # None
        /\ checkpoint'.processed_chunks = run.processed_chunk_ids
        /\ run'.processed_chunk_ids = run.processed_chunk_ids
        /\ RaisedInStep = {run.chunk_idx + 1}
        /\ run'.chunk_idx = run.chunk_idx + 1

\* C14: when the processing of a SubDocument raises (the upload timeout
\* included), a checkpoint with the error message is written, the SubDocument
\* is not added to the processed set, and every later SubDocument is
\* attempted: the run does not end because of it.
C14_ExceptionContained ==
    []C14_NoAbort /\ [][C14_CheckpointOnError]_vars

\* A run over three SubDocuments that ended after the first raised on the
\* upload timeout, the second was processed and the third raised.
C14_Witness ==
    /\ run.pc = "done" /\ Len(output_files) = 3
    /\ service.chunks[1].upload = "TimeoutError"
    /\ run.raised = {1, 3}
    /\ output_files[2] \in run.processed_chunk_ids

(***************************************************************************)
(* Properties of is_repetitive.                                            *)
(***************************************************************************)

\* The three word groups the text is built from.
TextGroup(g) ==
    LET words == Split(rep_text)
        n == Len(words) \div 3
    IN  SubSeq(words, (g - 1) * n + 1, g * n)

\* The letters of a word group.
GroupLetters(group) ==
    {Lower(group[i])[j] : i \in 1..Len(group), j \in 1..Len(group[1])}

ThreeIdenticalGroups == TextGroup(1) = TextGroup(2) /\ TextGroup(2) = TextGroup(3)

ThreeDistinctGroups ==
    \A g, h \in 1..3 :
        g # h => GroupLetters(TextGroup(g)) \cap GroupLetters(TextGroup(h)) = {}

\* C15 as stated: every text built from three identical word groups is
\* classified repetitive at the default threshold, and every text built from
\* three word groups with no letter in common is not.
C15_ThreeGroups ==
    rep_pc = "returned" =>
        /\ ThreeIdenticalGroups => repetitive
        /\ ThreeDistinctGroups => ~repetitive

\* C15 amended: a text of at least 100 characters built from three identical
\* word groups of at least 10 words each is classified repetitive at the
\* default threshold, and every text built from three word groups with no
\* letter in common is not.
C15_ThreeGroupsSampled ==
    rep_pc = "returned" =>
        /\ (ThreeIdenticalGroups /\ Len(rep_text) >= 100
                /\ Len(TextGroup(1)) >= 10) => repetitive
        /\ ThreeDistinctGroups => ~repetitive

\* A text of three identical groups, long enough to be sampled, was
\* classified repetitive.
C15_Witness ==
    /\ rep_pc = "returned" /\ ThreeIdenticalGroups
    /\ Len(rep_text) >= 100 /\ Len(TextGroup(1)) >= 10
    /\ repetitive

(***************************************************************************)
(* Properties of the retry loops.                                          *)
(***************************************************************************)

\* The attempts that met a quota or rate-limit error: a message with 429 or
\* RESOURCE_EXHAUSTED in it.
QuotaAttempts ==
    {i \in 1..Len(attempt_log) :
        /\ attempt_log[i].outcome = "error"
        /\ attempt_log[i].message \cap {"429", "RESOURCE_EXHAUSTED"} # {}}

\* C16: in both extractors, after a quota error at retry index k the loop
\* sleeps min(INITIAL_BACKOFF * BACKOFF_MULTIPLIER^k, MAX_BACKOFF) plus a
\* jitter of at most a tenth of that, above or below; that wait is never
\* above MAX_BACKOFF and is no smaller at a later index than at an earlier.
C16_Backoff ==
    /\ \A i \in QuotaAttempts :
          LET a == attempt_log[i]
              bound == settings.INITIAL_BACKOFF * Pow(settings.BACKOFF_MULTIPLIER, a.attempt)
          IN  /\ a.slept
              /\ a.wait_time = (IF bound < settings.MAX_BACKOFF
                                THEN bound ELSE settings.MAX_BACKOFF)
              /\ a.wait_time <= settings.MAX_BACKOFF
              /\ a.jitter <= a.wait_time * 1000
              /\ a.jitter >= -(a.wait_time * 1000)
    /\ \A i, j \in QuotaAttempts :
          i < j => attempt_log[i].wait_time <= attempt_log[j].wait_time

\* With the settings of settings.py: quota errors at every index, the wait of
\* the last one cut to MAX_BACKOFF, a jitter above and a jitter below zero.
C16_Witness ==
    /\ retry_pc = "returned" /\ settings.MAX_RETRIES = 5
    /\ QuotaAttempts = 1..5
    /\ attempt_log[4].wait_time = 80 /\ attempt_log[5].wait_time = 120
    /\ attempt_log[4].jitter > 0 /\ attempt_log[5].jitter < 0

(***************************************************************************)
(* Properties of the accumulated result of a run.                          *)
(***************************************************************************)

IsPrefix(a, b) == Len(a) <= Len(b) /\ SubSeq(b, 1, Len(a)) = a

\* Every list of the accumulated result a is the beginning of that of b.
OnlyAppended(a, b) ==
    /\ IsPrefix(a.vi_thuoc, b.vi_thuoc)
    /\ IsPrefix(a.bai_thuoc, b.bai_thuoc)
    /\ IsPrefix(a.cong_thuc, b.cong_thuc)

\* The run has left the loop over the SubDocuments.
LoopLeft == run.pc \in {"done", "SaveError"}

\* C17 (state part): the pass has not run while the run is in the loop, and
\* has run once when the run is past it, every SubDocument gone through.
C17_OnePass ==
    /\ run.pc \in {"start", "running", "killed"} => run.dedup_calls = 0
    /\ LoopLeft =>
          /\ run.dedup_calls = 1
          /\ split_pc = "returned" /\ run.chunk_idx = Len(output_files)

\* C17 (step part): a step inside the loop only appends to the three lists,
\* and what is handed to _save_to_files is the pass over what the loop
\* accumulated.
C17_AppendOnly ==
    /\ (run.pc = "running" /\ run'.pc = "running") =>
          OnlyAppended(run.all_results, run'.all_results)
    /\ (run.pc = "running" /\ run'.pc \in {"done", "SaveError"}) =>
          run'.handed = DeduplicateResults(run.all_results, use_fuzzy)

\* C17: during a run the accumulated result only grows, by appending, and
\* _deduplicate_results runs exactly once, after every SubDocument has been
\* gone through and before the results are saved.
C17_DedupTerminal ==
    []C17_OnePass /\ [][C17_AppendOnly]_vars

\* A run over three SubDocuments, one of which raised, that went through the
\* pass and saved.
C17_Witness ==
    /\ run.pc = "done" /\ Len(output_files) = 3
    /\ run.raised = {2} /\ run.dedup_calls = 1 /\ run.save_calls = 1

\* C18 (state part): a run that left the loop has handed its result to
\* _save_to_files, once, whatever number of SubDocuments raised.
C18_Handed ==
    /\ LoopLeft => run.save_calls = 1
    /\ run.pc \in {"start", "running", "killed"} => run.save_calls = 0

\* C18 (step part): the run starts from the records of the loaded checkpoint;
\* a step in which a SubDocument raises removes no accumulated record and
\* writes them all to the checkpoint; the result handed over is the pass over
\* all of them.
C18_NothingDiscarded ==
    /\ (run.pc = "start" /\ run'.pc = "running") =>
          run'.all_results = (IF run'.skip_processed /\ checkpoint.exists
                              THEN checkpoint.all_results ELSE EmptyResults)
    /\ (run.pc = "running" /\ run'.pc = "running" /\ RaisedInStep # {}) =>
          /\ OnlyAppended(run.all_results, run'.all_results)
          /\ checkpoint'.all_results = run'.all_results
    /\ (run.pc = "running" /\ LoopLeft') =>
          run'.handed = DeduplicateResults(run.all_results, use_fuzzy)

\* C18: a run that got past the check of the input file hands to
\* _save_to_files the deduplicated result of every record accumulated (those
\* loaded from the checkpoint included), however many SubDocuments failed.
C18_PartialResultsPersisted ==
    []C18_Handed /\ [][C18_NothingDiscarded]_vars

\* A resumed run in which every SubDocument left raised, and which handed
\* its result over.
C18_Witness ==
    /\ LoopLeft /\ run.runs = 2 /\ Len(output_files) = 3
    /\ run.loaded # {} /\ run.raised # {}
    /\ run.save_calls = 1

(***************************************************************************)
(* Properties of the prescriptions and formula lines of the deduplication  *)
(* pass.                                                                   *)
(***************************************************************************)

\* The k-th smallest element of a set of numbers.
Kth(S, k) == CHOOSE i \in S : Cardinality({j \in S : j <= i}) = k

\* The elements of seq at the indexes of S, in the order of seq.
Picked(seq, S) == [k \in 1..Cardinality(S) |-> seq[Kth(S, k)]]

\* The trimmed, case-folded name of a prescription.
NormalizedName(prescription) == Lower(Strip(prescription.ten_bai_thuoc))

\* The first occurrences of the non-empty normalized names.
FirstPrescriptions(seq) ==
    {i \in 1..Len(seq) :
        /\ NormalizedName(seq[i]) # <<>>
        /\ \A j \in 1..(i - 1) : NormalizedName(seq[j]) # NormalizedName(seq[i])}

\* C19: the prescriptions returned by the pass are the first occurrences of
\* the distinct non-empty normalized names of the input, as they were given
\* and in the order of the input; a name that is only similar to an earlier
\* one is kept.
C19_PrescriptionDedup ==
    dedup_pc = "once" =>
        pass1.bai_thuoc = Picked(data.bai_thuoc, FirstPrescriptions(data.bai_thuoc))

\* Three prescriptions: a name, the same name in another case (dropped, its
\* other field not merged), and a name similar to the first (kept).
C19_Witness ==
    /\ dedup_pc = "once" /\ use_fuzzy
    /\ Len(data.bai_thuoc) = 3
    /\ data.bai_thuoc[1].ten_bai_thuoc = S_ABC
    /\ data.bai_thuoc[2].ten_bai_thuoc = S_abc_sp
    /\ data.bai_thuoc[3].ten_bai_thuoc = S_abcd
    /\ pass1.bai_thuoc = <<data.bai_thuoc[1], data.bai_thuoc[3]>>

\* The triple of a formula line: normalized prescription name, normalized
\* herb name, trimmed dosage.
Triple(formula) ==
    <<Lower(Strip(formula.ten_bai_thuoc)), Lower(Strip(formula.ten_vi_thuoc)),
      Strip(formula.lieu_luong)>>

\* The first occurrences of the triples with both names.
FirstFormulas(seq) ==
    {i \in 1..Len(seq) :
        /\ Triple(seq[i])[1] # <<>> /\ Triple(seq[i])[2] # <<>>
        /\ \A j \in 1..(i - 1) : Triple(seq[j]) # Triple(seq[i])}

\* C20: the formula lines returned by the pass are the first occurrences of
\* the triples of the input, in the order of the input, without the lines
\* whose prescription name or herb name is empty; no two returned lines have
\* the same triple.
C20_FormulaDedup ==
    dedup_pc = "once" =>
        /\ pass1.cong_thuc = Picked(data.cong_thuc, FirstFormulas(data.cong_thuc))
        /\ \A i, j \in 1..Len(pass1.cong_thuc) :
              i # j => Triple(pass1.cong_thuc[i]) # Triple(pass1.cong_thuc[j])
        /\ \A i \in 1..Len(pass1.cong_thuc) :
              /\ Triple(pass1.cong_thuc[i])[1] # <<>>
              /\ Triple(pass1.cong_thuc[i])[2] # <<>>

\* Three formula lines: a line, the same triple in another case (dropped),
\* and the same names with another dosage (kept).
C20_Witness ==
    /\ dedup_pc = "once"
    /\ Len(data.cong_thuc) = 3
    /\ Triple(data.cong_thuc[1]) = Triple(data.cong_thuc[2])
    /\ data.cong_thuc[1] # data.cong_thuc[2]
    /\ data.cong_thuc[3].lieu_luong = S_9g
    /\ pass1.cong_thuc = <<data.cong_thuc[1], data.cong_thuc[3]>>

(***************************************************************************)
(* Properties of _chunk_pdf_pages.                                         *)
(***************************************************************************)

\* The text of the primary model is empty (no text returned) or shorter
\* than MIN_OCR_LENGTH.
EmptyOrShort(t) == ~t.is_text \/ t.len < chunk_settings.MIN_OCR_LENGTH

\* The longer of two texts (None counts as of length 0).
Longer(a, b) == IF b.len > a.len THEN b ELSE a

\* C21: for a page window whose primary extraction is empty or shorter than
\* MIN_OCR_LENGTH, with RETRY_WITH_FALLBACK enabled the fallback model is
\* run once and the longer of the two outputs is kept; without fallback the
\* window is not accepted.
C21_FallbackOnEmptyOrShort ==
    \A i \in 1..Len(window_log) :
        LET w == window_log[i]
        IN  EmptyOrShort(w.primary) =>
                IF chunk_settings.RETRY_WITH_FALLBACK
                THEN /\ w.fallback_calls = 1
                     /\ w.text = Longer(w.primary, w.fallback_text)
                ELSE ~w.accepted

\* The number of failed windows at the end of the log.
RECURSIVE TrailingFailures(_)
TrailingFailures(log) ==
    IF log = <<>> \/ Last(log).accepted
    THEN 0
    ELSE 1 + TrailingFailures(SubSeq(log, 1, Len(log) - 1))

\* The windows i, i+1 and i+2 of the log failed.
ThreeFailuresFrom(i) ==
    \A j \in i..(i + 2) : ~window_log[j].accepted

\* The slices of the accepted windows of the log, in order.
AcceptedTexts == SelectSeq(window_log, LAMBDA w : w.accepted)

\* The first pages of the windows of the SubDocument.
WindowStarts ==
    LET step == chunk_settings.pages.per_request - chunk_settings.pages.overlap
    IN  {p \in 1..chunk_settings.total_pages : (p - 1) % step = 0}

\* C23: as soon as 3 page windows in a row have failed, _chunk_pdf_pages has
\* returned the slices accepted so far and no later window is requested; the
\* failure count is the number of failed windows since the last accepted
\* one; when it returns with no 3 failures in a row, every window up to
\* total_pages was attempted.
C23_FailFastGuard ==
    /\ \A i \in 1..(Len(window_log) - 2) :
          ThreeFailuresFrom(i) =>
              /\ i + 2 = Len(window_log)
              /\ chunk_pc = "returned"
              /\ Len(chunks) = Len(AcceptedTexts)
              /\ \A k \in 1..Len(chunks) : chunks[k].text = AcceptedTexts[k].text
    /\ consecutive_failures = TrailingFailures(window_log)
    /\ (chunk_pc = "returned"
          /\ \A i \in 1..(Len(window_log) - 2) : ~ThreeFailuresFrom(i)) =>
              {window_log[i].start_page : i \in 1..Len(window_log)} = WindowStarts

\* An accepted window and then three failures in a row, with
\* a fifth window left that was not requested.
C23_Witness ==
    /\ chunk_pc = "returned"
    /\ Len(window_log) = 4
    /\ window_log[1].accepted
    /\ ThreeFailuresFrom(2)
    /\ Len(chunks) = 1
    /\ Cardinality(WindowStarts) = 5

\* C29: every TextSlice of chunks has a text of at least MIN_OCR_LENGTH
\* characters that is_repetitive did not hold of, whichever model it came
\* from; the positions are 0, 1, 2, ... and the start pages increase.
C29_AcceptedSlicesValid ==
    /\ \A k \in 1..Len(chunks) :
          /\ chunks[k].text.is_text
          /\ chunks[k].text.len >= chunk_settings.MIN_OCR_LENGTH
          /\ ~chunks[k].text.repetitive
          /\ chunks[k].position = k - 1
    /\ \A k \in 1..(Len(chunks) - 1) :
          chunks[k].start_page < chunks[k + 1].start_page

\* Two slices returned, with a failed window between them, the second one
\* with the text of the fallback model.
C29_Witness ==
    /\ chunk_pc = "returned"
    /\ Len(chunks) = 2
    /\ Len(window_log) = 3 /\ ~window_log[2].accepted
    /\ chunks[1].text.model = "OCR_MODEL_NAME"
    /\ chunks[2].text.model = "OCR_FALLBACK_MODEL"

(***************************************************************************)
(* Properties of the processed set.                                        *)
(***************************************************************************)

\* C22: a SubDocument listed in the processed set of the checkpoint file
\* has had all of its page windows attempted: _chunk_pdf_pages did not stop
\* early for it.
C22_ProcessedOnlyWhenAllWindowsAttempted ==
    checkpoint.exists =>
        \A c \in 1..Len(output_files) :
            output_files[c] \in checkpoint.processed_chunks =>
                ~service.chunks[c].stopped_early

(***************************************************************************)
(* Properties of the loop over the TextSlices of a SubDocument.            *)
(***************************************************************************)

\* The herb that the structured extraction of the k-th TextSlice of the
\* c-th SubDocument yields is in the accumulated result.
HasRecordOf(all_results, c, k) ==
    \E i \in 1..Len(all_results.vi_thuoc) :
        all_results.vi_thuoc[i] = StructuredResult(c, k, "result").vi_thuoc[1]

\* The TextSlices of the c-th SubDocument for which the structured
\* extraction fails.
FailedSlices(c) ==
    {k \in 1..Len(service.chunks[c].slices) : service.chunks[c].slices[k] = "Failed"}

\* C25: for a SubDocument with a TextSlice whose structured extraction
\* fails, the orchestrator counts that slice as failed, appends nothing for
\* it, runs the structured extraction on every TextSlice of the SubDocument,
\* and does not abort the SubDocument.
C25_PartialFailureTolerated ==
    (run.pc \in {"running", "done"}) =>
        \A c \in run.sliced :
            FailedSlices(c) # {} =>
                /\ run.gemini_calls[c] = Len(service.chunks[c].slices)
                /\ run.chunk_failed[c] = Cardinality(FailedSlices(c))
                /\ \A k \in FailedSlices(c) : ~HasRecordOf(run.all_results, c, k)
                /\ c \notin run.raised

(***************************************************************************)
(* Properties of the checkpoint file.                                      *)
(***************************************************************************)

\* The SubDocuments listed in the processed set of the checkpoint file.
Listed == {c \in 1..Len(output_files) : output_files[c] \in checkpoint.processed_chunks}

Succeeded(entry) == entry.outcome \in {"text", "result"}

C26_NoWaitAboveCeiling ==
    \A i \in 1..Len(attempt_log) :
        attempt_log[i].slept =>
            /\ attempt_log[i].wait_time <= settings.MAX_BACKOFF
            /\ attempt_log[i].attempt < settings.MAX_RETRIES - 1

\* C30: every generate call of the loop is preceded by one acquisition of the
\* rate limiter made after the previous generate call: the calls of the two
\* alternate, the rate limiter first.
C30_EveryCallRateLimited ==
    /\ Len(call_trace) = 2 * generate_calls
    /\ \A i \in 1..Len(call_trace) :
          call_trace[i] = IF i % 2 = 1 THEN "wait_for_rate_limit"
                                       ELSE "generate_content"

\* Three generate calls, the second and third of them retries.
C30_Witness ==
    /\ generate_calls = 3
    /\ Len(attempt_log) = 3
    /\ attempt_log[1].outcome = "error"
    /\ attempt_log[2].outcome \in {"empty", "repetitive"}
    /\ Succeeded(attempt_log[3])

(***************************************************************************)
(* Uniqueness of the herbs of the deduplication pass.                      *)
(***************************************************************************)

\* C27: no two herbs returned by the pass have the same Vietnamese name, case
\* ignored, and no two have the same scientific name, case ignored.
C27_HerbUniqueness ==
    dedup_pc = "once" =>
        \A i, j \in 1..Len(pass1.vi_thuoc) :
            i # j =>
                /\ Lower(pass1.vi_thuoc[i].ten_viet_nam)
                      # Lower(pass1.vi_thuoc[j].ten_viet_nam)
                /\ Lower(pass1.vi_thuoc[i].ten_khoa_hoc)
                      # Lower(pass1.vi_thuoc[j].ten_khoa_hoc)

=============================================================================
